---- MODULE Spec2Model ----
(***************************************************************************)
(* Model of "src/population simulator/app.py": the indicator fetcher       *)
(* fetch_vital_stats_data and the refresh callback update_graphs, which    *)
(* fetches seven World Bank indicators one after another and outer-joins   *)
(* them on (Country, Year).                                                *)
(*                                                                         *)
(* Data representation                                                     *)
(*   string of the JSON date field : a sequence of one-character strings   *)
(*   value cell                    : <<>> (null/None/NaN) or <<n>>         *)
(*   country reference / cell      : [shape |-> "str" | "dict", value]     *)
(*   DataFrame                     : [columns |-> Seq, rows |-> Seq(row)]  *)
(*   row                           : [Country, Year, vals], vals a function *)
(*                                   from the frame's value columns to a   *)
(*                                   value cell                            *)
(***************************************************************************)
EXTENDS Integers, Sequences, FiniteSets, TLC

VARIABLES pc, selected_country, response, issued, tables, data, k, exc

vars == <<pc, selected_country, response, issued, tables, data, k, exc>>

(* ------------------------------------------------------------------ *)
(* Bounds                                                              *)
(* ------------------------------------------------------------------ *)

\* Longest record list of a response in the single-call specification.
MaxRecs == 2

(* ------------------------------------------------------------------ *)
(* Program constants                                                   *)
(* ------------------------------------------------------------------ *)

\* The indicator codes in the order update_graphs requests them.
IndicatorCodes ==
  << "SP.POP.TOTL", "SP.DYN.BIRT.IN", "SP.DYN.DEAT.IN", "SP.DYN.LE00.IN",
     "SP.DYN.TFRT.IN", "SH.DYN.MORT", "NY.GDP.PCAP.CD" >>

\* The values of the country dropdown.
DropdownValues == {"world", "IN", "US", "BR"}

(* ------------------------------------------------------------------ *)
(* Values                                                              *)
(* ------------------------------------------------------------------ *)

NullV == <<>>
Num(n) == <<n>>

StrCountry(s) == [shape |-> "str", value |-> s]
DictCountry(s) == [shape |-> "dict", value |-> s]
\* A country object that has no "value" field.
NoField == "<no value field>"

\* pd.DataFrame(): no columns, no rows.
EmptyFrame == [columns |-> <<>>, rows |-> <<>>]

\* DataFrame.empty: some axis has length 0.
IsEmpty(df) == Len(df.columns) = 0 \/ Len(df.rows) = 0

Range(s) == {s[n] : n \in 1..Len(s)}

(* ------------------------------------------------------------------ *)
(* int(str), as Series.astype(int) applies it to every cell            *)
(* ------------------------------------------------------------------ *)

Digits == {"0", "1", "2", "3", "4", "5", "6", "7", "8", "9"}

DigitValue(c) ==
  CASE c = "0" -> 0 [] c = "1" -> 1 [] c = "2" -> 2 [] c = "3" -> 3
    [] c = "4" -> 4 [] c = "5" -> 5 [] c = "6" -> 6 [] c = "7" -> 7
    [] c = "8" -> 8 [] c = "9" -> 9

RECURSIVE DecimalValue(_)
DecimalValue(s) ==
  IF s = <<>> THEN 0
  ELSE 10 * DecimalValue(SubSeq(s, 1, Len(s) - 1)) + DigitValue(s[Len(s)])

\* int(s) succeeds on a non-empty string of decimal digits (the alphabet of
\* the model has no sign, blank or underscore) and raises ValueError otherwise.
Coercible(s) == s # <<>> /\ \A n \in 1..Len(s) : s[n] \in Digits

ToInt(s) == DecimalValue(s)

(* ------------------------------------------------------------------ *)
(* fetch_vital_stats_data                                              *)
(* ------------------------------------------------------------------ *)

Return(df) == [outcome |-> "return", exc |-> "none", table |-> df]
Raise(e) == [outcome |-> "raise", exc |-> e, table |-> EmptyFrame]

\* Lines 29-32: the shape of the FIRST record's country decides the branch
\* for the whole column.
FirstIsDict(recs) == recs[1].country.shape = "dict"

\* Line 30: x.get('value', 'Unknown') on a dict; a str has no .get.
DictGet(c) == IF c.value = NoField THEN StrCountry("Unknown") ELSE StrCountry(c.value)

\* Lines 29-32: the Country cell of record r.
CountryCell(recs, r) == IF FirstIsDict(recs) THEN DictGet(r.country) ELSE r.country

\* Lines 25-37 on a record list (element 1 of the envelope).
Normalise(indicator_code, recs) ==
  IF recs = <<>>
    THEN Raise("KeyError")            \* line 34: DataFrame([]) has no columns
  ELSE IF FirstIsDict(recs) /\ \E n \in 1..Len(recs) : recs[n].country.shape = "str"
    THEN Raise("AttributeError")      \* line 30: 'str' object has no attribute 'get'
  ELSE IF \E n \in 1..Len(recs) : ~Coercible(recs[n].date)
    THEN Raise("ValueError")          \* line 36: astype(int)
  ELSE Return([columns |-> <<"Country", "Year", indicator_code>>,
               rows |-> [n \in 1..Len(recs) |->
                           [Country |-> CountryCell(recs, recs[n]),
                            Year |-> ToInt(recs[n].date),
                            vals |-> [c \in {indicator_code} |-> recs[n].value]]]])

\* Fetch without the isinstance(data[1], list) test of line 21.
FetchWithoutListTest(indicator_code, resp) ==
  IF resp.transport = "error"
    THEN Raise("ConnectionError")
  ELSE IF resp.json = "invalid"
    THEN Return(EmptyFrame)
  ELSE IF resp.json \in {"number", "null"}
    THEN Raise("TypeError")
  ELSE IF resp.len < 2
    THEN Return(EmptyFrame)
  ELSE IF resp.json = "object"
    THEN Raise("KeyError")
  ELSE IF resp.json = "string"
    THEN Raise("ValueError")
  ELSE Normalise(indicator_code, resp.elems[2].recs)

\* Lines 13-37.
Fetch(indicator_code, resp) ==
  IF resp.transport = "error"
    THEN Raise("ConnectionError")     \* line 14 is outside the try block
  ELSE IF resp.json = "invalid"
    THEN Return(EmptyFrame)           \* lines 17-19
  ELSE IF resp.json \in {"number", "null"}
    THEN Raise("TypeError")           \* line 21: len() of a number or of None
  ELSE IF resp.len < 2
    THEN Return(EmptyFrame)           \* lines 21-23
  ELSE IF resp.json = "object"
    THEN Raise("KeyError")            \* line 21: data[1] on a dict
  ELSE IF resp.json = "string"
    THEN Return(EmptyFrame)           \* line 21: data[1] is a str
  ELSE IF resp.elems[2].t # "list"
    THEN Return(EmptyFrame)           \* lines 21-23
  ELSE Normalise(indicator_code, resp.elems[2].recs)

(* ------------------------------------------------------------------ *)
(* pd.merge(left, right, on=['Country', 'Year'], how='outer')          *)
(* ------------------------------------------------------------------ *)

KeyColumns == {"Country", "Year"}

ValueColumns(df) == SelectSeq(df.columns, LAMBDA c : c \notin KeyColumns)

\* The country strings of the model in Python's str order (by code point).
CountryOrder == <<"Brazil", "India", "United States", "Unknown", "World", "world">>

Rank(name) == CHOOSE n \in 1..Len(CountryOrder) : CountryOrder[n] = name

KeyOf(row) == <<row.Country.value, row.Year>>

Keys(df) == {KeyOf(df.rows[n]) : n \in 1..Len(df.rows)}

KeyLess(a, b) == Rank(a[1]) < Rank(b[1]) \/ (a[1] = b[1] /\ a[2] < b[2])

\* The keys of S in lexicographic order, as an outer join orders its result.
RECURSIVE SortKeys(_)
SortKeys(S) ==
  IF S = {} THEN <<>>
  ELSE LET m == CHOOSE x \in S : \A y \in S \ {x} : KeyLess(x, y)
       IN <<m>> \o SortKeys(S \ {m})

RowsWithKey(df, key) == SelectSeq(df.rows, LAMBDA r : KeyOf(r) = key)

Nulls(cols) == [c \in Range(cols) |-> NullV]

\* The row joining left row l and right row r, which have the same key.
JoinRow(l, r) == [Country |-> l.Country, Year |-> l.Year, vals |-> l.vals @@ r.vals]

\* Each row of ls paired with every row of rs, in order.
RECURSIVE Product(_, _)
Product(ls, rs) ==
  IF ls = <<>> THEN <<>>
  ELSE [n \in 1..Len(rs) |-> JoinRow(ls[1], rs[n])] \o Product(Tail(ls), rs)

\* The rows of the result that carry `key`.
JoinedRows(left, right, key) ==
  LET ls == RowsWithKey(left, key)
      rs == RowsWithKey(right, key)
      lnull == Nulls(ValueColumns(left))
      rnull == Nulls(ValueColumns(right))
  IN IF rs = <<>>
       THEN [n \in 1..Len(ls) |-> [ls[n] EXCEPT !.vals = @ @@ rnull]]
     ELSE IF ls = <<>>
       THEN [n \in 1..Len(rs) |-> [rs[n] EXCEPT !.vals = lnull @@ @]]
     ELSE Product(ls, rs)

RECURSIVE JoinAll(_, _, _)
JoinAll(left, right, keys) ==
  IF keys = <<>> THEN <<>>
  ELSE JoinedRows(left, right, keys[1]) \o JoinAll(left, right, Tail(keys))

\* pd.merge raises KeyError when a frame lacks a column named in `on`.
MergeRaises(left, right) ==
  \/ ~(KeyColumns \subseteq Range(left.columns))
  \/ ~(KeyColumns \subseteq Range(right.columns))

Merge(left, right) ==
  [columns |-> left.columns \o ValueColumns(right),
   rows |-> JoinAll(left, right, SortKeys(Keys(left) \cup Keys(right)))]

\* The merge iteration without the emptiness guard of line 89 and with a
\* handler that falls back to the incoming table.
MergeIterationFallback(acc, df) ==
  IF MergeRaises(acc, df) THEN df ELSE Merge(acc, df)

\* Lines 89-93: one iteration of the merge loop, the new value of `data`.
MergeIteration(acc, df) ==
  IF ~IsEmpty(df)
    THEN IF MergeRaises(acc, df) THEN acc ELSE Merge(acc, df)
    ELSE acc

(* ------------------------------------------------------------------ *)
(* Provider responses                                                  *)
(* ------------------------------------------------------------------ *)

\* Sequences over S of length at most n.
SeqsUpTo(S, n) == UNION {[1..m -> S] : m \in 0..n}

Element(t, recs) == [t |-> t, recs |-> recs]

\* Element 0 of the envelope: the paging metadata object.
Meta == Element("object", <<>>)

NonListElements == {Element(t, <<>>) : t \in {"null", "object", "number", "string"}}

TransportError == [transport |-> "error", json |-> "none", len |-> 0, elems |-> <<>>]

\* A body that response.json() cannot parse.
InvalidJson == [transport |-> "ok", json |-> "invalid", len |-> 0, elems |-> <<>>]

\* A body that parses to a JSON array.
Envelope(elems) == [transport |-> "ok", json |-> "array", len |-> Len(elems), elems |-> elems]

\* A body that parses to a number, null, an object of n keys or a string of n characters.
TopLevel(kind, n) == [transport |-> "ok", json |-> kind, len |-> n, elems |-> <<>>]

\* No request is in flight.
NoResponse == [transport |-> "none", json |-> "none", len |-> 0, elems |-> <<>>]

CountryRefs == {StrCountry("world"), DictCountry("India"), DictCountry(NoField)}

Dates == {<<"2", "0", "0", "0">>, <<"2", "0", "0", "1">>, <<"2", "0", "0", "1", "Q", "1">>}

Values == {NullV, Num(7)}

Records == [country : CountryRefs, date : Dates, value : Values]

RecordLists == SeqsUpTo(Records, MaxRecs)

SecondElements == NonListElements \cup {Element("list", recs) : recs \in RecordLists}

\* The responses of the single-call specification.
Responses ==
  {TransportError, InvalidJson}
    \cup {TopLevel("number", 0), TopLevel("null", 0)}
    \cup {TopLevel(kind, n) : kind \in {"object", "string"}, n \in 0..2}
    \cup {Envelope(<<>>), Envelope(<<Meta>>)}
    \cup {Envelope(<<Meta, e>>) : e \in SecondElements}
    \cup {Envelope(<<Meta, e, Meta>>) : e \in SecondElements}

\* The display name the provider gives for a dropdown value.
DisplayName(country) ==
  CASE country = "world" -> "World" [] country = "IN" -> "India"
    [] country = "US" -> "United States" [] country = "BR" -> "Brazil"

\* Observations <<date, value>> of one indicator, newest first as the
\* provider lists them.
FullSeries ==
  << <<<<"2", "0", "0", "2">>, Num(3)>>, <<<<"2", "0", "0", "1">>, Num(2)>>,
     <<<<"2", "0", "0", "0">>, NullV>> >>
ShortSeries == << <<<<"2", "0", "0", "1">>, Num(5)>> >>
RepeatedSeries == << <<<<"2", "0", "0", "1">>, Num(5)>>, <<<<"2", "0", "0", "1">>, Num(6)>> >>
QuarterlySeries ==
  << <<<<"2", "0", "0", "1">>, Num(5)>>, <<<<"2", "0", "0", "1", "Q", "1">>, Num(6)>> >>

CycleSeries == {<<>>, FullSeries, ShortSeries, RepeatedSeries, QuarterlySeries}

SeriesRecords(country, series) ==
  [n \in 1..Len(series) |->
     [country |-> DictCountry(DisplayName(country)),
      date |-> series[n][1], value |-> series[n][2]]]

\* The responses a request of a refresh cycle may get.
CycleResponses(country) ==
  {TransportError, InvalidJson, Envelope(<<Meta>>), Envelope(<<Meta, Element("null", <<>>)>>)}
    \cup {Envelope(<<Meta, Element("list", SeriesRecords(country, s))>>) : s \in CycleSeries}

(* ------------------------------------------------------------------ *)
(* One refresh cycle: update_graphs                                    *)
(* ------------------------------------------------------------------ *)

NumIndicators == Len(IndicatorCodes)

Init ==
  /\ pc = "idle"
  /\ selected_country = "world"
  /\ response = NoResponse
  /\ issued = <<>>
  /\ tables = <<>>
  /\ data = EmptyFrame
  /\ k = 0
  /\ exc = "none"

\* The callback is entered with fresh locals.
Enter(country) ==
  /\ pc' = "fetch"
  /\ selected_country' = country
  /\ issued' = <<>>
  /\ tables' = <<>>
  /\ data' = EmptyFrame
  /\ k' = 0
  /\ exc' = "none"
  /\ UNCHANGED response

\* Lines 74, 77: the dropdown value triggers the callback (also on page load).
SelectCountry ==
  /\ pc \in {"idle", "done", "raised"}
  /\ \E country \in DropdownValues : Enter(country)

\* Lines 59-63, 75, 77: the interval timer triggers the callback.
IntervalTick ==
  /\ pc \in {"done", "raised"}
  /\ Enter(selected_country)

\* Lines 78-84: the next of the seven sequential calls of
\* fetch_vital_stats_data; an exception it raises leaves update_graphs.
FetchIndicator ==
  /\ pc = "fetch"
  /\ \E resp \in CycleResponses(selected_country) :
       LET code == IndicatorCodes[Len(issued) + 1]
           r == Fetch(code, resp)
       IN /\ issued' = Append(issued, code)
          /\ IF r.outcome = "raise"
               THEN /\ pc' = "raised"
                    /\ exc' = r.exc
                    /\ UNCHANGED tables
               ELSE /\ tables' = Append(tables, r.table)
                    /\ pc' = IF Len(tables) + 1 = NumIndicators THEN "init" ELSE "fetch"
                    /\ UNCHANGED exc
  /\ UNCHANGED <<selected_country, response, data, k>>

\* Line 87: data = population_data.
InitData ==
  /\ pc = "init"
  /\ data' = tables[1]
  /\ k' = 2
  /\ pc' = "merge"
  /\ UNCHANGED <<selected_country, response, issued, tables, exc>>

\* Lines 88-93: one iteration of the loop over the six other tables.
MergeStep ==
  /\ pc = "merge"
  /\ data' = MergeIteration(data, tables[k])
  /\ k' = k + 1
  /\ pc' = IF k = NumIndicators THEN "render" ELSE "merge"
  /\ UNCHANGED <<selected_country, response, issued, tables, exc>>

\* Lines 95-103: px.line raises ValueError when the frame lacks the x or y column.
Render ==
  /\ pc = "render"
  /\ IF {"Year"} \cup Range(IndicatorCodes) \subseteq Range(data.columns)
       THEN pc' = "done" /\ UNCHANGED exc
       ELSE pc' = "raised" /\ exc' = "ValueError"
  /\ UNCHANGED <<selected_country, response, issued, tables, data, k>>

Next == SelectCountry \/ IntervalTick \/ FetchIndicator \/ InitData \/ MergeStep \/ Render

Spec == Init /\ [][Next]_vars

(* ------------------------------------------------------------------ *)
(* One call of fetch_vital_stats_data on an arbitrary response         *)
(* ------------------------------------------------------------------ *)

InitFetch ==
  /\ pc = "call"
  /\ selected_country = "world"
  /\ response \in Responses
  /\ issued = <<>>
  /\ tables = <<>>
  /\ data = EmptyFrame
  /\ k = 0
  /\ exc = "none"

\* Lines 13-37: the call returns a table or raises.
FetchCall ==
  /\ pc = "call"
  /\ \E code \in Range(IndicatorCodes) :
       LET r == Fetch(code, response)
       IN /\ issued' = <<code>>
          /\ tables' = IF r.outcome = "return" THEN <<r.table>> ELSE <<>>
          /\ exc' = r.exc
          /\ pc' = IF r.outcome = "return" THEN "returned" ELSE "raised"
  /\ UNCHANGED <<selected_country, response, data, k>>

NextFetch == FetchCall

SpecFetch == InitFetch /\ [][NextFetch]_vars

(* ------------------------------------------------------------------ *)
(* Properties of fetch_vital_stats_data (checked under SpecFetch)      *)
(* ------------------------------------------------------------------ *)

Called == pc \in {"returned", "raised"}

ReturnedEmpty == pc = "returned" /\ tables = <<EmptyFrame>> /\ exc = "none"

\* The response is an envelope whose element 1 is a list of records.
HasRecordList(resp) ==
  resp.transport = "ok" /\ resp.json = "array" /\ resp.len >= 2 /\ resp.elems[2].t = "list"

RecordsOf(resp) == resp.elems[2].recs

AllCoercible(recs) == \A n \in 1..Len(recs) : Coercible(recs[n].date)

\* C1: when the HTTP GET fails at transport level, the call returns an empty
\* table and no exception leaves fetch_vital_stats_data.
C1_TransportFailureYieldsEmptyTable ==
  (Called /\ response.transport = "error") => ReturnedEmpty

\* The records of recs whose date int() accepts.
CoercibleRecords(recs) == SelectSeq(recs, LAMBDA r : Coercible(r.date))

\* C4: when the record list holds both a record whose year cannot be coerced
\* and one whose year can, the call returns a table holding exactly the
\* records with coercible years, in order.
C4_MalformedRecordAloneIsDropped ==
  (/\ Called
   /\ HasRecordList(response)
   /\ \E n \in 1..Len(RecordsOf(response)) : ~Coercible(RecordsOf(response)[n].date)
   /\ \E n \in 1..Len(RecordsOf(response)) : Coercible(RecordsOf(response)[n].date))
  => /\ pc = "returned"
     /\ LET kept == CoercibleRecords(RecordsOf(response))
            rows == tables[1].rows
        IN /\ Len(rows) = Len(kept)
           /\ \A n \in 1..Len(kept) :
                /\ rows[n].Year = ToInt(kept[n].date)
                /\ rows[n].vals[issued[1]] = kept[n].value

\* The body is not valid JSON, or is an envelope of fewer than 2 elements,
\* or an envelope whose element 1 is not a list.
NoDataBody(resp) ==
  /\ resp.transport = "ok"
  /\ \/ resp.json = "invalid"
     \/ resp.json = "array" /\ resp.len < 2
     \/ resp.json = "array" /\ resp.len >= 2 /\ resp.elems[2].t # "list"

\* C5: a body that is not valid JSON, or an envelope with fewer than 2
\* elements, or an envelope whose element 1 is null, an object, a number or
\* a string, makes the call return an empty table without raising.
C5_MalformedEnvelopeYieldsEmptyTable ==
  (Called /\ NoDataBody(response)) => ReturnedEmpty

\* C5 witness: the call has returned on a 2-element envelope whose element 1
\* is an object.
C5_Witness ==
  /\ pc = "returned"
  /\ response.json = "array"
  /\ response.len = 2
  /\ response.elems[2].t = "object"
  /\ tables = <<EmptyFrame>>

\* The normalised country of one record, whatever the other records are.
NormalisedCountry(c) ==
  IF c.shape = "dict"
    THEN IF c.value = NoField THEN StrCountry("Unknown") ELSE StrCountry(c.value)
    ELSE c

\* C6: in a returned table the Country cell of every record is the object's
\* value field, "Unknown" for an object without one, or the plain string
\* itself, independently of the shape of the other records.
C6_CountryNormalisedPerRecord ==
  (pc = "returned" /\ HasRecordList(response) /\ RecordsOf(response) # <<>>)
  => /\ Len(tables[1].rows) = Len(RecordsOf(response))
     /\ \A n \in 1..Len(RecordsOf(response)) :
          tables[1].rows[n].Country = NormalisedCountry(RecordsOf(response)[n].country)

\* C8: on a 2-element envelope whose element 1 is a list of records (of any
\* length, zero included) with coercible dates, the call returns a table with
\* the columns Country, Year and the indicator code, one row per record in
\* order, integer years and the value fields unchanged.
C8_WellFormedResponseYieldsTable ==
  (/\ Called
   /\ HasRecordList(response)
   /\ response.len = 2
   /\ AllCoercible(RecordsOf(response)))
  => /\ pc = "returned"
     /\ tables[1].columns = <<"Country", "Year", issued[1]>>
     /\ Len(tables[1].rows) = Len(RecordsOf(response))
     /\ \A n \in 1..Len(RecordsOf(response)) :
          /\ tables[1].rows[n].Year \in Int
          /\ tables[1].rows[n].Year = ToInt(RecordsOf(response)[n].date)
          /\ tables[1].rows[n].vals[issued[1]] = RecordsOf(response)[n].value

(* ------------------------------------------------------------------ *)
(* Properties of update_graphs (checked under Spec)                    *)
(* ------------------------------------------------------------------ *)

\* The merge loop has finished.
Merged == pc = "render"

NoDuplicateKeys(df) == Cardinality(Keys(df)) = Len(df.rows)

\* C2: when no table holds a duplicate key, every key of any of the seven
\* tables is in exactly one row of the merged table, and in each row the
\* column of every indicator (of a non-empty table) holds the source value
\* if that table has the row's key and the null marker otherwise.
C2_EveryKeyOnceWithSourceValues ==
  (Merged /\ \A t \in 1..NumIndicators : NoDuplicateKeys(tables[t]))
  => /\ \A t \in 1..NumIndicators : \A key \in Keys(tables[t]) :
          Len(RowsWithKey(data, key)) = 1
     /\ \A n \in 1..Len(data.rows) : \A t \in 1..NumIndicators :
          LET code == IndicatorCodes[t]
              src == RowsWithKey(tables[t], KeyOf(data.rows[n]))
          IN ~IsEmpty(tables[t]) =>
               /\ code \in DOMAIN data.rows[n].vals
               /\ data.rows[n].vals[code] =
                    IF src # <<>> THEN src[1].vals[code] ELSE NullV

\* C3: when exactly one of the seven fetches yields an empty table, the
\* anchor included, the merge loop finishes and the merged table has the
\* value column of every indicator whose table is not empty.
C3_OneEmptyTableKeepsOtherColumns ==
  (Merged /\ Cardinality({t \in 1..NumIndicators : IsEmpty(tables[t])}) = 1)
  => \A t \in 1..NumIndicators :
       ~IsEmpty(tables[t]) => IndicatorCodes[t] \in Range(data.columns)

\* The merge loop of lines 87-93 run over the tables ts.
RECURSIVE MergeLoop(_, _)
MergeLoop(acc, ts) ==
  IF ts = <<>> THEN acc ELSE MergeLoop(MergeIteration(acc, ts[1]), Tail(ts))

MergeAll(ts) == MergeLoop(ts[1], Tail(ts))

Reordered(ts, p) == [n \in 1..Len(ts) |-> ts[p[n]]]

\* C7: the set of keys of the merged table is the same for every ordering of
\* the tables, every choice of the anchor included.
C7_KeySetIndependentOfOrder ==
  (Merged /\ \A t \in 1..NumIndicators : NoDuplicateKeys(tables[t]))
  => \A p \in Permutations(1..NumIndicators) :
       Keys(MergeAll(Reordered(tables, p))) = Keys(data)

\* A step of the merge loop whose table is empty or whose join raises keeps
\* the accumulated table and moves to the next table.
SkippedStepKeepsData ==
  (pc = "merge" /\ (IsEmpty(tables[k]) \/ MergeRaises(data, tables[k])))
  => /\ data' = data
     /\ k' = k + 1
     /\ pc' = IF k = NumIndicators THEN "render" ELSE "merge"

\* When the six non-anchor tables are empty the result is the anchor table.
AllEmptyKeepsAnchor ==
  (Merged /\ \A t \in 2..NumIndicators : IsEmpty(tables[t])) => data = tables[1]

\* C9: a merge step whose incoming table is empty, or whose outer join
\* raises, leaves the accumulated table as it was and the loop goes on; when
\* all six non-anchor tables are empty the result is the anchor unchanged.
C9_SkippedStepLeavesAccumulator ==
  [][SkippedStepKeepsData]_vars /\ []AllEmptyKeepsAnchor

\* C9 witness: the loop has finished after skipping an empty table (the
\* second) and after a join that raised (the third table is not empty and
\* the accumulator has no key columns), with the accumulator as it started.
C9_Witness ==
  /\ Merged
  /\ IsEmpty(tables[2])
  /\ ~IsEmpty(tables[3]) /\ MergeRaises(tables[1], tables[3])
  /\ data = tables[1]

IsPrefix(s, t) == Len(s) <= Len(t) /\ \A n \in 1..Len(s) : s[n] = t[n]

\* C10: in every refresh cycle, whatever the outcome of each request, exactly
\* seven requests are issued, one per indicator code, each once and in the
\* fixed order, and the merge starts only after the seventh fetch returned.
C10_SevenRequestsInOrderEveryCycle ==
  /\ IsPrefix(issued, IndicatorCodes)
  /\ pc \in {"init", "merge", "render"} => Len(tables) = NumIndicators
  /\ pc \in {"init", "merge", "render", "done", "raised"} => issued = IndicatorCodes

====
